---- MODULE Spec2Model ----
(***************************************************************************)
(* Model of the skill-swap command line application.                       *)
(*                                                                         *)
(* Every command is one process invocation (bin/skill_swap.py main): the   *)
(* in-memory session starts empty (lib/auth.py:14), the handler runs to    *)
(* completion and the process exits.  What survives between invocations    *)
(* is the SQLite database (tables users, skills, user_skills,              *)
(* service_requests, reviews) and the session file.  Actions named after  *)
(* a handler run it alone, from its first read to its write; the actions   *)
(* ...Read and ...Write run it interleaved with other processes, the       *)
(* variable `inflight` holding the commands between the two steps.         *)
(*                                                                         *)
(* The storage schema is the one declared in lib/models.py.  SQL NOW() and *)
(* datetime.now() both read the clock `now`.  Columns that no handler      *)
(* reads or rewrites after the insert (full_name, bio, created_at) are     *)
(* left out of the rows; users.deleted_at is only ever tested with         *)
(* IS NULL and is kept as the boolean `deleted`.                           *)
(***************************************************************************)
EXTENDS Integers, Sequences, FiniteSets, Bags, TLC

VARIABLES
    users,          \* table users:            id -> row
    skills,         \* table skills:           id -> row
    user_skills,    \* table user_skills:      bag of rows (user_id, skill_id)
    requests,       \* table service_requests: id -> row
    reviews,        \* table reviews:          id -> row
    session_file,   \* the .session file: <<>> when absent, else <<record>>
    now,            \* the wall clock, in minutes
    last,           \* the last command run and the condition it reported
    inflight        \* commands between their last read and their write:
                    \* a sequence of the local variables each one holds

vars == <<users, skills, user_skills, requests, reviews, session_file, now, last, inflight>>

(***************************************************************************)
(* Bounds of the model.                                                    *)
(***************************************************************************)
MaxUsers == 3
MaxRequests == 1
MaxNow == 2
MaxReviews == 3
MaxInflight == 2

(***************************************************************************)
(* Program constants.                                                      *)
(***************************************************************************)
MinDuration == 15
MinCredit == 1

\* SQL NULL / Python None for string-valued columns and arguments.
NULL == "<NULL>"

\* Python truthiness of an optional string argument (`if status:`).
Truthy(s) == s # NULL /\ s # ""

(***************************************************************************)
(* Input domains of the commands.                                          *)
(***************************************************************************)
UsernameIn == {"alice", "bob", "carol", "nobody"}
RegisterNameIn == {"alice", "carol"}
RegisterEmailIn == {"alice@x.io", "carol@x.io"}
PasswordIn == {"secret-pw", "wrong-pw"}
SkillNameIn == {"python"}
SkillNamesIn == SkillNameIn \cup {"cooking"}
\* The table whose INSERT raises, for a command run against failing storage.
FailedWriteIn == {"skills", "user_skills"}
SkillIdIn == {1, 2}
UserIdIn == 1 .. MaxUsers
RequestIdIn == 1 .. MaxRequests
TimeStrIn == {"2030-01-01T00:01", "2030-01-01T00:02", "tomorrow"}
DurationIn == {14, 15}
CreditIn == {0, 1}
NotesIn == {NULL, "", "note"}
StatusIn == {NULL, "pending", "accepted", "rejected", "completed", "cancelled"}
ConfirmIn == {"y", "n"}
UpdateNameIn == {"", "bob", "dave"}
UpdateEmailIn == {"", "bob@x.io", "dave@x.io"}
RatingIn == {1, 5}
\* `request list --user`: 0 stands for the option left out (`if user_id:`
\* treats None and 0 alike).
UserFilterIn == {0} \cup UserIdIn
CommentsIn == {"great"}

(***************************************************************************)
(* Storage helpers.                                                        *)
(***************************************************************************)
Max(S) == CHOOSE m \in S : \A x \in S : x <= m

\* The rowid SQLite gives to a row inserted without an explicit id.
NextId(table) == IF DOMAIN table = {} THEN 1 ELSE Max(DOMAIN table) + 1

Insert(table, row) ==
    LET n == NextId(table)
    IN  [i \in DOMAIN table \cup {n} |-> IF i = n THEN row ELSE table[i]]

Delete(table, ids) == [i \in DOMAIN table \ ids |-> table[i]]

\* CHECK constraint of service_requests.status.
StatusCheck == {"pending", "accepted", "rejected", "completed"}

(***************************************************************************)
(* lib/utils.py                                                            *)
(***************************************************************************)
\* The minute each well-formed time string denotes.
TimeOf == ("2030-01-01T00:01" :> 1) @@ ("2030-01-01T00:02" :> 2)

\* strptime(dt_str, "%Y-%m-%dT%H:%M"): a value, or ValueError.
parse_datetime(dt_str) ==
    IF dt_str \in DOMAIN TimeOf
    THEN [ok |-> TRUE, value |-> TimeOf[dt_str]]
    ELSE [ok |-> FALSE, value |-> 0]

validate_integer(value, min_val) == ~(value < min_val)

\* validate_integer called with both min_val and max_val.
validate_integer_range(value, min_val, max_val) ==
    validate_integer(value, min_val) /\ ~(value > max_val)

(***************************************************************************)
(* lib/auth.py                                                             *)
(***************************************************************************)
\* bcrypt.hashpw / bcrypt.checkpw: the hash matches exactly its password.
hashpw(password) == <<"bcrypt", password>>

\* Mutant of checkpw: only the format of the stored hash is looked at.
checkpw_Any(password, password_hash) == password_hash[1] = "bcrypt"

checkpw(password, password_hash) == hashpw(password) = password_hash

Session(user_id, username, email) ==
    [user_id |-> user_id, username |-> username, email |-> email]

\* load_session in a fresh process: the file's record, or nothing.
load_session == session_file

\* require_login: the wrapped body runs only when a session resolves.
LoggedIn == load_session # <<>>

\* get_current_user, for handlers that passed require_login.
current_user == load_session[1]

Report(op, outcome) == [op |-> op, outcome |-> outcome]

(***************************************************************************)
(* Initial state: a migrated database in which alice and bob have          *)
(* registered, nobody is logged in and nothing else has been stored.       *)
(***************************************************************************)
UserRow(username, email, password) ==
    [username |-> username, email |-> email,
     password_hash |-> hashpw(password), deleted |-> FALSE]

Init ==
    /\ users = Insert(Insert(<<>>, UserRow("alice", "alice@x.io", "secret-pw")),
                      UserRow("bob", "bob@x.io", "secret-pw"))
    /\ skills = <<>>
    /\ user_skills = EmptyBag
    /\ requests = <<>>
    /\ reviews = <<>>
    /\ session_file = <<>>
    /\ now = 0
    /\ last = Report("init", "ok")
    /\ inflight = <<>>

(***************************************************************************)
(* lib/auth.py: register, login, logout                                    *)
(***************************************************************************)
\* Mutant of register: the lookup forgets `OR email = %s`.
register_UsernameOnly(username, email, password) ==
    IF \E i \in DOMAIN users : users[i].username = username
    THEN [outcome |-> "AlreadyExists", users |-> users]
    ELSE [outcome |-> "ok",
          users |-> Insert(users, UserRow(username, email, password))]

\* The UNIQUE constraints of users.username and users.email are never hit:
\* register and update_user look the values up before they write.
register(username, email, password) ==
    IF \E i \in DOMAIN users :
           users[i].username = username \/ users[i].email = email
    THEN [outcome |-> "AlreadyExists", users |-> users]
    ELSE [outcome |-> "ok",
          users |-> Insert(users, UserRow(username, email, password))]

Register(username, email, password) ==
    /\ Cardinality(DOMAIN users) < MaxUsers
    /\ LET r == register(username, email, password)
       IN  /\ users' = r.users
           /\ last' = Report("register", r.outcome)
    /\ UNCHANGED <<skills, user_skills, requests, reviews, session_file, now, inflight>>

login(username, password) ==
    LET result == {i \in DOMAIN users :
                       users[i].username = username /\ ~users[i].deleted}
    IN  IF result = {}
        THEN [outcome |-> "InvalidCredentials", session_file |-> session_file]
        ELSE LET i == CHOOSE i \in result : TRUE
             IN  IF ~checkpw(password, users[i].password_hash)
                 THEN [outcome |-> "InvalidCredentials",
                       session_file |-> session_file]
                 ELSE [outcome |-> "ok",
                       session_file |->
                           <<Session(i, users[i].username, users[i].email)>>]

Login(username, password) ==
    /\ LET r == login(username, password)
       IN  /\ session_file' = r.session_file
           /\ last' = Report("login", r.outcome)
    /\ UNCHANGED <<users, skills, user_skills, requests, reviews, now, inflight>>

\* Mutant of logout: the session file is never removed.
logout_Noop(current_session) ==
    [outcome |-> "NotLoggedIn", session_file |-> session_file]

\* logout with the in-memory session `current_session` of the calling
\* process: the session file is removed only when that session is set.
logout(current_session) ==
    IF current_session # <<>>
    THEN [outcome |-> "ok", session_file |-> <<>>]
    ELSE [outcome |-> "NotLoggedIn", session_file |-> session_file]

\* The logout command: a fresh process, whose in-memory session is empty.
Logout ==
    /\ LET r == logout(<<>>)
       IN  /\ session_file' = r.session_file
           /\ last' = Report("logout", r.outcome)
    /\ UNCHANGED <<users, skills, user_skills, requests, reviews, now, inflight>>

(***************************************************************************)
(* lib/user.py: update_user, delete_user                                   *)
(***************************************************************************)
\* update_user with the two answers typed at the prompts ("" keeps the
\* current value).  The handler rewrites the row and the in-memory session
\* of its own process; it does not write the session file.
update_user(username_in, email_in) ==
    IF ~LoggedIn THEN [outcome |-> "Unauthenticated", users |-> users]
    ELSE
    LET me == current_user.user_id
        user == users[me]
        username == IF username_in # "" THEN username_in ELSE user.username
        email == IF email_in # "" THEN email_in ELSE user.email
        check == {i \in DOMAIN users :
                     /\ users[i].username = username \/ users[i].email = email
                     /\ i # me}
    IN  IF (username # user.username \/ email # user.email) /\ check # {}
        THEN [outcome |-> "AlreadyInUse", users |-> users]
        ELSE [outcome |-> "ok",
              users |-> [users EXCEPT ![me].username = username,
                                      ![me].email = email]]

UpdateUser(username_in, email_in) ==
    /\ LET r == update_user(username_in, email_in)
       IN  /\ users' = r.users
           /\ last' = Report("update_user", r.outcome)
    /\ UNCHANGED <<skills, user_skills, requests, reviews, session_file, now, inflight>>

\* Mutant of delete_user: the confirmation is asked outside require_login.
delete_user_ConfirmFirst(confirm) ==
    IF confirm # "y"
    THEN [outcome |-> "Cancelled", users |-> users,
          session_file |-> session_file]
    ELSE IF ~LoggedIn
    THEN [outcome |-> "Unauthenticated", users |-> users,
          session_file |-> session_file]
    ELSE [outcome |-> "ok",
          users |-> [i \in DOMAIN users |->
                        IF i = current_user.user_id
                        THEN [users[i] EXCEPT !.deleted = TRUE]
                        ELSE users[i]],
          session_file |-> logout(load_session).session_file]

delete_user(confirm) ==
    IF ~LoggedIn
    THEN [outcome |-> "Unauthenticated", users |-> users,
          session_file |-> session_file]
    ELSE IF confirm # "y"
    THEN [outcome |-> "Cancelled", users |-> users,
          session_file |-> session_file]
    ELSE [outcome |-> "ok",
          users |-> [i \in DOMAIN users |->
                        IF i = current_user.user_id
                        THEN [users[i] EXCEPT !.deleted = TRUE]
                        ELSE users[i]],
          session_file |-> logout(load_session).session_file]

DeleteUser(confirm) ==
    /\ LET r == delete_user(confirm)
       IN  /\ users' = r.users
           /\ session_file' = r.session_file
           /\ last' = Report("delete_user", r.outcome)
    /\ UNCHANGED <<skills, user_skills, requests, reviews, now, inflight>>

(***************************************************************************)
(* lib/skill.py: add_skill, remove_skill                                   *)
(***************************************************************************)
UserSkillRow(user_id, skill_id) == [user_id |-> user_id, skill_id |-> skill_id]

SkillIdOf(table, skill_name) ==
    CHOOSE i \in DOMAIN table : table[i].name = skill_name

\* Mutant of add_skill: the link is inserted without looking it up first.
add_skill_NoLookup(skill_name) ==
    IF ~LoggedIn
    THEN [outcome |-> "Unauthenticated", skills |-> skills,
          user_skills |-> user_skills]
    ELSE
    LET skills1 == IF \E i \in DOMAIN skills : skills[i].name = skill_name
                   THEN skills
                   ELSE Insert(skills, [name |-> skill_name])
        skill_id == SkillIdOf(skills1, skill_name)
        link == UserSkillRow(current_user.user_id, skill_id)
    IN  [outcome |-> "ok", skills |-> skills1,
         user_skills |-> user_skills (+) SetToBag({link})]

add_skill(skill_name) ==
    IF ~LoggedIn
    THEN [outcome |-> "Unauthenticated", skills |-> skills,
          user_skills |-> user_skills]
    ELSE
    LET skills1 == IF \E i \in DOMAIN skills : skills[i].name = skill_name
                   THEN skills
                   ELSE Insert(skills, [name |-> skill_name])
        skill_id == SkillIdOf(skills1, skill_name)
        link == UserSkillRow(current_user.user_id, skill_id)
    IN  IF BagIn(link, user_skills)
        THEN [outcome |-> "AlreadyHasSkill", skills |-> skills1,
              user_skills |-> user_skills]
        ELSE [outcome |-> "ok", skills |-> skills1,
              user_skills |-> user_skills (+) SetToBag({link})]

AddSkill(skill_name) ==
    /\ LET r == add_skill(skill_name)
       IN  /\ skills' = r.skills
           /\ user_skills' = r.user_skills
           /\ last' = Report("add_skill", r.outcome)
    /\ UNCHANGED <<users, requests, reviews, session_file, now, inflight>>

\* add_skill when the INSERT into the table `failed_write` raises: each
\* execute_query is a connection and a transaction of its own, so a skill
\* row committed by the first INSERT stays when the second one raises.
add_skill_failing(skill_name, failed_write) ==
    IF ~LoggedIn
    THEN [outcome |-> "Unauthenticated", skills |-> skills,
          user_skills |-> user_skills]
    ELSE
    LET known == \E i \in DOMAIN skills : skills[i].name = skill_name
    IN  IF ~known /\ failed_write = "skills"
        THEN [outcome |-> "StorageError", skills |-> skills,
              user_skills |-> user_skills]
        ELSE
        LET skills1 == IF known THEN skills
                       ELSE Insert(skills, [name |-> skill_name])
            skill_id == SkillIdOf(skills1, skill_name)
            link == UserSkillRow(current_user.user_id, skill_id)
        IN  IF BagIn(link, user_skills)
            THEN [outcome |-> "AlreadyHasSkill", skills |-> skills1,
                  user_skills |-> user_skills]
            ELSE IF failed_write = "user_skills"
            THEN [outcome |-> "StorageError", skills |-> skills1,
                  user_skills |-> user_skills]
            ELSE [outcome |-> "ok", skills |-> skills1,
                  user_skills |-> user_skills (+) SetToBag({link})]

AddSkillFailing(skill_name, failed_write) ==
    /\ LET r == add_skill_failing(skill_name, failed_write)
       IN  /\ skills' = r.skills
           /\ user_skills' = r.user_skills
           /\ last' = Report("add_skill", r.outcome)
    /\ UNCHANGED <<users, requests, reviews, session_file, now, inflight>>

remove_skill(skill_id) ==
    IF ~LoggedIn
    THEN [outcome |-> "Unauthenticated", user_skills |-> user_skills]
    ELSE
    LET link == UserSkillRow(current_user.user_id, skill_id)
    IN  IF ~(skill_id \in DOMAIN skills /\ BagIn(link, user_skills))
        THEN [outcome |-> "SkillNotOwned", user_skills |-> user_skills]
        ELSE [outcome |-> "ok",
              user_skills |-> [r \in DOMAIN user_skills \ {link} |->
                                  user_skills[r]]]

RemoveSkill(skill_id) ==
    /\ LET r == remove_skill(skill_id)
       IN  /\ user_skills' = r.user_skills
           /\ last' = Report("remove_skill", r.outcome)
    /\ UNCHANGED <<users, skills, requests, reviews, session_file, now, inflight>>

(***************************************************************************)
(* lib/request.py: create_request, update_request, delete_request          *)
(***************************************************************************)
\* Mutant of ProviderFound: the lookup forgets `AND deleted_at IS NULL`.
ProviderFound_Deleted(provider_id) == provider_id \in DOMAIN users

\* "SELECT id FROM users WHERE id = %s AND deleted_at IS NULL"
ProviderFound(provider_id) ==
    provider_id \in DOMAIN users /\ ~users[provider_id].deleted

\* Mutant of SkillOffered: the join forgets `AND us.user_id = %s`.
SkillOffered_AnyProvider(provider_id, skill_id) ==
    /\ skill_id \in DOMAIN skills
    /\ \E row \in BagToSet(user_skills) : row.skill_id = skill_id

\* "SELECT s.id FROM skills s JOIN user_skills us ON s.id = us.skill_id
\*  WHERE s.id = %s AND us.user_id = %s"
SkillOffered(provider_id, skill_id) ==
    /\ skill_id \in DOMAIN skills
    /\ BagIn(UserSkillRow(provider_id, skill_id), user_skills)

\* `service_time < datetime.now()`
TimeInPast(service_time) == service_time < now

\* The row an INSERT INTO service_requests stores: status takes the column
\* default, updated_at the time of the insert.
RequestRow(requester_id, provider_id, skill_id, service_time, duration, credit_cost, notes) ==
    [requester_id |-> requester_id, provider_id |-> provider_id,
     skill_id |-> skill_id, time |-> service_time, duration |-> duration,
     credit_cost |-> credit_cost, status |-> "pending", notes |-> notes,
     updated_at |-> now]

create_request(provider_id, skill_id, time_str, duration, credit_cost, notes) ==
    LET service_time == parse_datetime(time_str)
        Fail(outcome) == [outcome |-> outcome, requests |-> requests]
    IN  IF ~LoggedIn THEN Fail("Unauthenticated")
        ELSE IF ~ProviderFound(provider_id) THEN Fail("NotFound")
        ELSE IF ~SkillOffered(provider_id, skill_id) THEN Fail("SkillNotOffered")
        ELSE IF ~service_time.ok THEN Fail("InvalidTime")
        ELSE IF TimeInPast(service_time.value) THEN Fail("PastTime")
        ELSE IF ~validate_integer(duration, MinDuration)
             THEN Fail("InvalidDuration")
        ELSE IF ~validate_integer(credit_cost, MinCredit)
             THEN Fail("InvalidCredit")
        ELSE [outcome |-> "ok",
              requests |->
                  Insert(requests,
                         RequestRow(current_user.user_id, provider_id,
                                    skill_id, service_time.value, duration,
                                    credit_cost, notes))]

CreateRequest(provider_id, skill_id, time_str, duration, credit_cost, notes) ==
    /\ Cardinality(DOMAIN requests) < MaxRequests
    /\ LET r == create_request(provider_id, skill_id, time_str, duration,
                               credit_cost, notes)
       IN  /\ requests' = r.requests
           /\ last' = Report("create_request", r.outcome)
    /\ UNCHANGED <<users, skills, user_skills, reviews, session_file, now, inflight>>

\* Mutant of valid_status: the provider's accept / reject is not tied to
\* the current status being pending.
valid_status_Reopen(current_status, status, is_requester, is_provider) ==
    \/ /\ current_status = "pending"
       /\ is_requester /\ status = "cancelled"
    \/ is_provider /\ status \in {"accepted", "rejected"}
    \/ /\ current_status = "accepted"
       /\ is_provider /\ status = "completed"

\* The status transitions update_request lets through.
valid_status(current_status, status, is_requester, is_provider) ==
    \/ /\ current_status = "pending"
       /\ \/ is_requester /\ status = "cancelled"
          \/ is_provider /\ status \in {"accepted", "rejected"}
    \/ /\ current_status = "accepted"
       /\ is_provider /\ status = "completed"

\* Mutant of IsParticipant: the permission test is inverted for providers.
IsParticipant_Slip(is_requester, is_provider) == is_requester \/ ~is_provider

\* `is_requester or is_provider`: who may update a request at all.
IsParticipant(is_requester, is_provider) == is_requester \/ is_provider

\* Mutant of MayChangeTime: any participant may change the time.
MayChangeTime_Participant(is_requester, is_provider) ==
    is_requester \/ is_provider

\* `if not is_requester`: who may change the time of a request.
MayChangeTime(is_requester, is_provider) == is_requester

\* Mutant of UpdatedRow: `elif notes:`, so that notes are written only when
\* no status is supplied.
UpdatedRow_ElifNotes(row, status, notes, time_str) ==
    [row EXCEPT !.updated_at = now,
                !.status = IF Truthy(status) THEN status ELSE @,
                !.notes = IF ~Truthy(status) /\ Truthy(notes)
                          THEN notes ELSE @,
                !.time = IF Truthy(time_str)
                         THEN parse_datetime(time_str).value ELSE @]

\* Mutant of UpdatedRow: completing a request also zeroes its credit cost.
UpdatedRow_Settle(row, status, notes, time_str) ==
    [row EXCEPT !.updated_at = now,
                !.status = IF Truthy(status) THEN status ELSE @,
                !.credit_cost = IF status = "completed" THEN 0 ELSE @,
                !.notes = IF Truthy(notes) THEN notes ELSE @,
                !.time = IF Truthy(time_str)
                         THEN parse_datetime(time_str).value ELSE @]

\* The row "UPDATE service_requests SET updated_at = NOW(), ..." writes:
\* one statement carrying every field the call supplied.
UpdatedRow(row, status, notes, time_str) ==
    [row EXCEPT !.updated_at = now,
                !.status = IF Truthy(status) THEN status ELSE @,
                !.notes = IF Truthy(notes) THEN notes ELSE @,
                !.time = IF Truthy(time_str)
                         THEN parse_datetime(time_str).value ELSE @]

\* execute_query of the UPDATE: the statement is committed unless the new
\* row breaks the table's CHECK constraint, in which case it is rolled back.
ExecuteUpdate(table, request_id, row) ==
    IF row.status \in StatusCheck
    THEN [outcome |-> "ok",
          requests |-> [table EXCEPT ![request_id] = row]]
    ELSE [outcome |-> "StorageError", requests |-> table]

update_request(request_id, status, notes, time_str) ==
    LET Fail(outcome) == [outcome |-> outcome, requests |-> requests]
    IN  IF ~LoggedIn THEN Fail("Unauthenticated")
        ELSE IF request_id \notin DOMAIN requests THEN Fail("NotFound")
        ELSE
        LET row == requests[request_id]
            is_requester == row.requester_id = current_user.user_id
            is_provider == row.provider_id = current_user.user_id
        IN  IF ~IsParticipant(is_requester, is_provider)
                 THEN Fail("Forbidden")
            ELSE IF /\ Truthy(status)
                    /\ ~valid_status(row.status, status, is_requester,
                                     is_provider)
                 THEN Fail("InvalidTransition")
            ELSE IF /\ Truthy(time_str)
                    /\ ~MayChangeTime(is_requester, is_provider)
                 THEN Fail("NotRequester")
            ELSE IF Truthy(time_str) /\ ~parse_datetime(time_str).ok
                 THEN Fail("InvalidTime")
            ELSE IF /\ Truthy(time_str)
                    /\ TimeInPast(parse_datetime(time_str).value)
                 THEN Fail("PastTime")
            ELSE IF ~(Truthy(status) \/ Truthy(notes) \/ Truthy(time_str))
                 THEN Fail("NoOp")
            ELSE ExecuteUpdate(requests, request_id,
                               UpdatedRow(row, status, notes, time_str))

\* Two processes running one command each interleave at their database
\* calls: every execute_query is a connection and a transaction of its own
\* and nothing locks the row between a command's SELECT and its write.
\* RemoveAt drops the k-th in-flight command once it has written.
RemoveAt(seq, k) == SubSeq(seq, 1, k - 1) \o SubSeq(seq, k + 1, Len(seq))

\* update_request up to and including its last check: the command goes on
\* to its UPDATE exactly when, run alone, it reaches execute_query.
UpdateRequestRead(request_id, status, notes, time_str) ==
    /\ Len(inflight) < MaxInflight
    /\ LET r == update_request(request_id, status, notes, time_str)
       IN  IF r.outcome \in {"ok", "StorageError"}
           THEN /\ inflight' = Append(inflight,
                        [op |-> "update_request", request_id |-> request_id,
                         status |-> status, notes |-> notes,
                         time_str |-> time_str])
                /\ last' = Report("update_request", "checked")
           ELSE /\ inflight' = inflight
                /\ last' = Report("update_request", r.outcome)
    /\ UNCHANGED <<users, skills, user_skills, requests, reviews, session_file, now>>

\* The UPDATE of an in-flight update_request: "... SET <the supplied
\* fields> WHERE id = %s" on the row as it is stored now; when no row has
\* the id the statement changes nothing and still succeeds.
update_request_write(w) ==
    IF w.request_id \notin DOMAIN requests
    THEN [outcome |-> "ok", requests |-> requests]
    ELSE ExecuteUpdate(requests, w.request_id,
                       UpdatedRow(requests[w.request_id], w.status, w.notes,
                                  w.time_str))

UpdateRequestWrite(k) ==
    /\ k \in DOMAIN inflight
    /\ inflight[k].op = "update_request"
    /\ LET r == update_request_write(inflight[k])
       IN  /\ requests' = r.requests
           /\ last' = Report("update_request", r.outcome)
    /\ inflight' = RemoveAt(inflight, k)
    /\ UNCHANGED <<users, skills, user_skills, reviews, session_file, now>>

UpdateRequest(request_id, status, notes, time_str) ==
    /\ LET r == update_request(request_id, status, notes, time_str)
       IN  /\ requests' = r.requests
           /\ last' = Report("update_request", r.outcome)
    /\ UNCHANGED <<users, skills, user_skills, reviews, session_file, now, inflight>>

\* Mutant of delete_request: any participant may delete.
delete_request_Participant(request_id) ==
    LET Fail(outcome) == [outcome |-> outcome, requests |-> requests]
    IN  IF ~LoggedIn THEN Fail("Unauthenticated")
        ELSE IF request_id \notin DOMAIN requests THEN Fail("NotFound")
        ELSE IF /\ requests[request_id].requester_id # current_user.user_id
                /\ requests[request_id].provider_id # current_user.user_id
             THEN Fail("Forbidden")
        ELSE [outcome |-> "ok", requests |-> Delete(requests, {request_id})]

\* "DELETE FROM service_requests WHERE id = %s" on a connection opened by
\* sqlite3.connect with no PRAGMA foreign_keys: the ON DELETE CASCADE of
\* reviews.service_request_id is not enforced, so the statement removes the
\* one row of service_requests and nothing else.
delete_request(request_id) ==
    LET Fail(outcome) == [outcome |-> outcome, requests |-> requests]
    IN  IF ~LoggedIn THEN Fail("Unauthenticated")
        ELSE IF request_id \notin DOMAIN requests THEN Fail("NotFound")
        ELSE IF requests[request_id].requester_id # current_user.user_id
             THEN Fail("Forbidden")
        ELSE [outcome |-> "ok", requests |-> Delete(requests, {request_id})]

DeleteRequest(request_id) ==
    /\ LET r == delete_request(request_id)
       IN  /\ requests' = r.requests
           /\ last' = Report("delete_request", r.outcome)
    /\ UNCHANGED <<users, skills, user_skills, reviews, session_file, now, inflight>>

(***************************************************************************)
(* lib/request.py: list_requests, view_request (what the command prints)   *)
(***************************************************************************)
\* The JOINs of both queries: a request is listed only with its requester,
\* provider and skill rows.
Joined(row) ==
    /\ row.requester_id \in DOMAIN users
    /\ row.provider_id \in DOMAIN users
    /\ row.skill_id \in DOMAIN skills

\* The ids of the requests list_requests prints.
list_requests(user_id, status) ==
    IF ~LoggedIn THEN [outcome |-> "Unauthenticated", shown |-> {}]
    ELSE
    LET who == IF user_id # 0 THEN user_id ELSE current_user.user_id
        found == {id \in DOMAIN requests :
                     /\ Joined(requests[id])
                     /\ \/ requests[id].requester_id = who
                        \/ requests[id].provider_id = who
                     /\ Truthy(status) => requests[id].status = status}
    IN  IF found = {} THEN [outcome |-> "NoRequests", shown |-> {}]
        ELSE [outcome |-> "ok", shown |-> found]

ListRequests(user_id, status) ==
    /\ last' = Report("list_requests", list_requests(user_id, status).outcome)
    /\ UNCHANGED <<users, skills, user_skills, requests, reviews, session_file, now, inflight>>

\* The ids of the requests view_request prints (one or none).
view_request(request_id) ==
    IF ~LoggedIn THEN [outcome |-> "Unauthenticated", shown |-> {}]
    ELSE
    LET found == {id \in DOMAIN requests :
                     /\ id = request_id
                     /\ Joined(requests[id])
                     /\ \/ requests[id].requester_id = current_user.user_id
                        \/ requests[id].provider_id = current_user.user_id}
    IN  IF found = {} THEN [outcome |-> "NotFound", shown |-> {}]
        ELSE [outcome |-> "ok", shown |-> found]

ViewRequest(request_id) ==
    /\ last' = Report("view_request", view_request(request_id).outcome)
    /\ UNCHANGED <<users, skills, user_skills, requests, reviews, session_file, now, inflight>>

(***************************************************************************)
(* lib/review.py: add_review                                               *)
(***************************************************************************)
ReviewRow(service_request_id, reviewer_id, reviewee_id, rating, comments) ==
    [service_request_id |-> service_request_id, reviewer_id |-> reviewer_id,
     reviewee_id |-> reviewee_id, rating |-> rating, comments |-> comments]

\* Mutant of NotCompleted: only a pending request is refused.
NotCompleted_Pending(status) == status = "pending"

\* `status != 'completed'`
NotCompleted(status) == status # "completed"

\* Mutant of existing_review: the lookup finds nothing.
existing_review_None(request_id, reviewer_id) == {}

\* "SELECT id FROM reviews WHERE service_request_id = %s AND reviewer_id = %s"
existing_review(request_id, reviewer_id) ==
    {i \in DOMAIN reviews :
        /\ reviews[i].service_request_id = request_id
        /\ reviews[i].reviewer_id = reviewer_id}

\* `provider_id if reviewer_id == requester_id else requester_id`
Reviewee(reviewer_id, requester_id, provider_id) ==
    IF reviewer_id = requester_id THEN provider_id ELSE requester_id

add_review(request_id, rating, comments) ==
    LET Fail(outcome) == [outcome |-> outcome, reviews |-> reviews]
    IN  IF ~LoggedIn THEN Fail("Unauthenticated")
        ELSE IF ~validate_integer_range(rating, 1, 5)
             THEN Fail("InvalidRating")
        ELSE IF request_id \notin DOMAIN requests THEN Fail("NotFound")
        ELSE
        LET row == requests[request_id]
            reviewer_id == current_user.user_id
        IN  IF /\ reviewer_id # row.requester_id
               /\ reviewer_id # row.provider_id
                 THEN Fail("Forbidden")
            ELSE IF NotCompleted(row.status) THEN Fail("NotCompleted")
            ELSE IF existing_review(request_id, reviewer_id) # {}
                 THEN Fail("DuplicateReview")
            ELSE [outcome |-> "ok",
                  reviews |->
                      Insert(reviews,
                             ReviewRow(request_id, reviewer_id,
                                       Reviewee(reviewer_id, row.requester_id,
                                                row.provider_id),
                                       rating, comments))]

\* add_review up to and including the existence check: the command goes
\* on to its INSERT with the row it has built.
AddReviewRead(request_id, rating, comments) ==
    /\ Len(inflight) < MaxInflight
    /\ LET r == add_review(request_id, rating, comments)
       IN  IF r.outcome = "ok"
           THEN /\ inflight' = Append(inflight,
                        [op |-> "add_review",
                         row |-> r.reviews[CHOOSE i \in DOMAIN r.reviews :
                                               i \notin DOMAIN reviews]])
                /\ last' = Report("add_review", "checked")
           ELSE /\ inflight' = inflight
                /\ last' = Report("add_review", r.outcome)
    /\ UNCHANGED <<users, skills, user_skills, requests, reviews, session_file, now>>

\* Mutant of ExecuteInsertReview: the table has a unique constraint on
\* (service_request_id, reviewer_id).
ExecuteInsertReview_Unique(table, row) ==
    IF \E i \in DOMAIN table :
           /\ table[i].service_request_id = row.service_request_id
           /\ table[i].reviewer_id = row.reviewer_id
    THEN [outcome |-> "StorageError", reviews |-> table]
    ELSE [outcome |-> "ok", reviews |-> Insert(table, row)]

\* execute_query of "INSERT INTO reviews ...": the table has no unique
\* constraint, so the row is stored whatever the table holds.
ExecuteInsertReview(table, row) ==
    [outcome |-> "ok", reviews |-> Insert(table, row)]

add_review_write(w) == ExecuteInsertReview(reviews, w.row)

AddReviewWrite(k) ==
    /\ k \in DOMAIN inflight
    /\ inflight[k].op = "add_review"
    /\ Cardinality(DOMAIN reviews) < MaxReviews
    /\ LET r == add_review_write(inflight[k])
       IN  /\ reviews' = r.reviews
           /\ last' = Report("add_review", r.outcome)
    /\ inflight' = RemoveAt(inflight, k)
    /\ UNCHANGED <<users, skills, user_skills, requests, session_file, now>>

AddReview(request_id, rating, comments) ==
    /\ Cardinality(DOMAIN reviews) < MaxReviews
    /\ LET r == add_review(request_id, rating, comments)
       IN  /\ reviews' = r.reviews
           /\ last' = Report("add_review", r.outcome)
    /\ UNCHANGED <<users, skills, user_skills, requests, session_file, now, inflight>>

(***************************************************************************)
(* Time passes between commands.                                           *)
(***************************************************************************)
Tick ==
    /\ now < MaxNow
    /\ now' = now + 1
    /\ UNCHANGED <<users, skills, user_skills, requests, reviews, session_file, last, inflight>>

Next ==
    \/ \E username \in RegisterNameIn, email \in RegisterEmailIn :
           Register(username, email, "secret-pw")
    \/ \E username \in UsernameIn, password \in PasswordIn :
           Login(username, password)
    \/ Logout
    \/ \E username_in \in UpdateNameIn, email_in \in UpdateEmailIn :
           UpdateUser(username_in, email_in)
    \/ \E confirm \in ConfirmIn : DeleteUser(confirm)
    \/ \E skill_name \in SkillNameIn : AddSkill(skill_name)
    \/ \E skill_name \in SkillNameIn, failed_write \in FailedWriteIn :
           AddSkillFailing(skill_name, failed_write)
    \/ \E skill_id \in SkillIdIn : RemoveSkill(skill_id)
    \/ \E provider_id \in UserIdIn, skill_id \in SkillIdIn,
          time_str \in TimeStrIn, duration \in DurationIn,
          credit_cost \in CreditIn, notes \in NotesIn :
           CreateRequest(provider_id, skill_id, time_str, duration,
                         credit_cost, notes)
    \/ \E request_id \in RequestIdIn, status \in StatusIn, notes \in NotesIn,
          time_str \in TimeStrIn \cup {NULL, ""} :
           UpdateRequest(request_id, status, notes, time_str)
    \/ \E request_id \in RequestIdIn : DeleteRequest(request_id)
    \/ \E user_id \in UserFilterIn, status \in StatusIn :
           ListRequests(user_id, status)
    \/ \E request_id \in RequestIdIn : ViewRequest(request_id)
    \/ \E request_id \in RequestIdIn, rating \in RatingIn,
          comments \in CommentsIn :
           AddReview(request_id, rating, comments)
    \/ \E request_id \in RequestIdIn, status \in StatusIn, notes \in NotesIn,
          time_str \in TimeStrIn \cup {NULL, ""} :
           UpdateRequestRead(request_id, status, notes, time_str)
    \/ \E k \in 1..MaxInflight : UpdateRequestWrite(k)
    \/ \E request_id \in RequestIdIn, rating \in RatingIn,
          comments \in CommentsIn :
           AddReviewRead(request_id, rating, comments)
    \/ \E k \in 1..MaxInflight : AddReviewWrite(k)
    \/ Tick

Spec == Init /\ [][Next]_vars

(***************************************************************************)
(* The request lifecycle on its own: alice, bob and carol have registered  *)
(* and bob offers the skill "python"; from there users log in and create,  *)
(* update and delete requests while time passes.  These are the commands   *)
(* that read or write service_requests once the accounts exist.            *)
(***************************************************************************)
InitLifecycle ==
    /\ users = Insert(Insert(Insert(<<>>,
                   UserRow("alice", "alice@x.io", "secret-pw")),
                   UserRow("bob", "bob@x.io", "secret-pw")),
                   UserRow("carol", "carol@x.io", "secret-pw"))
    /\ skills = Insert(<<>>, [name |-> "python"])
    /\ user_skills = SetToBag({UserSkillRow(2, 1)})
    /\ requests = <<>>
    /\ reviews = <<>>
    /\ session_file = <<>>
    /\ now = 0
    /\ last = Report("init", "ok")
    /\ inflight = <<>>

NextLifecycle ==
    \/ \E username \in UsernameIn, password \in PasswordIn :
           Login(username, password)
    \/ Logout
    \/ \E provider_id \in UserIdIn, skill_id \in SkillIdIn,
          time_str \in TimeStrIn, duration \in DurationIn,
          credit_cost \in CreditIn, notes \in NotesIn :
           CreateRequest(provider_id, skill_id, time_str, duration,
                         credit_cost, notes)
    \/ \E request_id \in RequestIdIn, status \in StatusIn, notes \in NotesIn,
          time_str \in TimeStrIn \cup {NULL, ""} :
           UpdateRequest(request_id, status, notes, time_str)
    \/ \E request_id \in RequestIdIn : DeleteRequest(request_id)
    \/ Tick

SpecLifecycle == InitLifecycle /\ [][NextLifecycle]_vars

(***************************************************************************)
(* Request creation on its own: starting from the registered accounts,     *)
(* users log in, add and remove skills, delete their account and create    *)
(* requests.  These are the commands that write what create_request reads. *)
(***************************************************************************)
NextCreate ==
    \/ \E username \in UsernameIn, password \in PasswordIn :
           Login(username, password)
    \/ \E confirm \in ConfirmIn : DeleteUser(confirm)
    \/ \E skill_name \in SkillNameIn : AddSkill(skill_name)
    \/ \E skill_id \in SkillIdIn : RemoveSkill(skill_id)
    \/ \E provider_id \in UserIdIn, skill_id \in SkillIdIn,
          time_str \in TimeStrIn, duration \in DurationIn,
          credit_cost \in CreditIn, notes \in NotesIn :
           CreateRequest(provider_id, skill_id, time_str, duration,
                         credit_cost, notes)
    \/ Tick

SpecCreate == Init /\ [][NextCreate]_vars

(***************************************************************************)
(* Reviews on their own: alice, bob and carol have registered, alice and   *)
(* bob offer the skill "python"; users log in, create a request, move it   *)
(* through its statuses, review it and delete it.  The request fields that *)
(* add_review does not read (time, duration, credit cost, notes) and the   *)
(* rating and comments of a review take one valid value each.              *)
(***************************************************************************)
InitReview ==
    /\ users = Insert(Insert(Insert(<<>>,
                   UserRow("alice", "alice@x.io", "secret-pw")),
                   UserRow("bob", "bob@x.io", "secret-pw")),
                   UserRow("carol", "carol@x.io", "secret-pw"))
    /\ skills = Insert(<<>>, [name |-> "python"])
    /\ user_skills = SetToBag({UserSkillRow(1, 1), UserSkillRow(2, 1)})
    /\ requests = <<>>
    /\ reviews = <<>>
    /\ session_file = <<>>
    /\ now = 0
    /\ last = Report("init", "ok")
    /\ inflight = <<>>

NextReview ==
    \/ \E username \in {"alice", "bob", "carol"} : Login(username, "secret-pw")
    \/ \E provider_id \in UserIdIn :
           CreateRequest(provider_id, 1, "2030-01-01T00:02", 15, 1, NULL)
    \/ \E request_id \in RequestIdIn, status \in StatusIn \ {NULL} :
           UpdateRequest(request_id, status, NULL, NULL)
    \/ \E request_id \in RequestIdIn : DeleteRequest(request_id)
    \/ \E request_id \in RequestIdIn : AddReview(request_id, 5, "great")

SpecReview == InitReview /\ [][NextReview]_vars

(***************************************************************************)
(* Accounts and sessions on their own: users register, log in and out,     *)
(* rename themselves and delete their account.                             *)
(***************************************************************************)
NextAuth ==
    \/ \E username \in RegisterNameIn, email \in RegisterEmailIn :
           Register(username, email, "secret-pw")
    \/ \E username \in UsernameIn, password \in PasswordIn :
           Login(username, password)
    \/ Logout
    \/ \E username_in \in UpdateNameIn, email_in \in UpdateEmailIn :
           UpdateUser(username_in, email_in)
    \/ \E confirm \in ConfirmIn : DeleteUser(confirm)

SpecAuth == Init /\ [][NextAuth]_vars

(***************************************************************************)
(* Accounts over their whole life: users register, log in, offer a skill,  *)
(* create requests and delete their account.                               *)
(***************************************************************************)
NextAccount ==
    \/ \E username \in RegisterNameIn, email \in RegisterEmailIn :
           Register(username, email, "secret-pw")
    \/ \E username \in UsernameIn, password \in PasswordIn :
           Login(username, password)
    \/ \E confirm \in ConfirmIn : DeleteUser(confirm)
    \/ \E skill_name \in SkillNameIn : AddSkill(skill_name)
    \/ \E provider_id \in UserIdIn :
           CreateRequest(provider_id, 1, "2030-01-01T00:02", 15, 1, NULL)

SpecAccount == Init /\ [][NextAccount]_vars

(***************************************************************************)
(* Concurrent commands: alice requests bob's skill, and both run           *)
(* update_request and add_review from several terminals, the commands      *)
(* interleaving between their reads and their write.                       *)
(***************************************************************************)
\* `request create` run from the terminal where `username` is logged in.
CreateRequestAs(username, provider_id, skill_id, time_str, duration, credit_cost, notes) ==
    /\ LoggedIn
    /\ current_user.username = username
    /\ CreateRequest(provider_id, skill_id, time_str, duration, credit_cost,
                     notes)

NextRace ==
    \/ \E username \in {"alice", "bob"} : Login(username, "secret-pw")
    \/ CreateRequestAs("alice", 2, 1, "2030-01-01T00:02", 15, 1, NULL)
    \/ \E request_id \in RequestIdIn, status \in StatusIn \ {NULL} :
           UpdateRequestRead(request_id, status, NULL, NULL)
    \/ \E k \in 1..MaxInflight : UpdateRequestWrite(k)
    \/ \E request_id \in RequestIdIn : AddReviewRead(request_id, 5, "great")
    \/ \E k \in 1..MaxInflight : AddReviewWrite(k)

SpecRace == InitLifecycle /\ [][NextRace]_vars

(***************************************************************************)
(* Skills on their own: alice and bob log in and add and remove two        *)
(* skills, with and without the storage failing under add_skill.           *)
(***************************************************************************)
NextSkill ==
    \/ \E username \in {"alice", "bob"} : Login(username, "secret-pw")
    \/ \E skill_name \in SkillNamesIn : AddSkill(skill_name)
    \/ \E skill_name \in SkillNamesIn, failed_write \in FailedWriteIn :
           AddSkillFailing(skill_name, failed_write)
    \/ \E skill_id \in SkillIdIn : RemoveSkill(skill_id)

SpecSkill == Init /\ [][NextSkill]_vars

(***************************************************************************)
(* Reading requests: from the accounts and the skill of InitLifecycle,     *)
(* users log in, create a request, move it through its statuses and list   *)
(* and view requests.                                                      *)
(***************************************************************************)
NextRead ==
    \/ \E username \in {"alice", "bob", "carol"} : Login(username, "secret-pw")
    \/ \E provider_id \in UserIdIn :
           CreateRequest(provider_id, 1, "2030-01-01T00:02", 15, 1, NULL)
    \/ \E request_id \in RequestIdIn, status \in StatusIn \ {NULL} :
           UpdateRequest(request_id, status, NULL, NULL)
    \/ \E user_id \in UserFilterIn, status \in StatusIn :
           ListRequests(user_id, status)
    \/ \E request_id \in RequestIdIn : ViewRequest(request_id)

SpecRead == InitLifecycle /\ [][NextRead]_vars

(***************************************************************************)
(* Vocabulary of the properties.                                           *)
(***************************************************************************)
TimeStrOpt == TimeStrIn \cup {NULL, ""}
Statuses == {"pending", "accepted", "rejected", "completed", "cancelled"}
Terminal == {"rejected", "completed", "cancelled"}

\* The transition authorization table of the specification.
InTable(from, to, is_requester, is_provider) ==
    \/ from = "pending" /\ to = "cancelled" /\ is_requester
    \/ from = "pending" /\ to = "accepted" /\ is_provider
    \/ from = "pending" /\ to = "rejected" /\ is_provider
    \/ from = "accepted" /\ to = "completed" /\ is_provider

ActsAsRequester(id) == requests[id].requester_id = current_user.user_id
ActsAsProvider(id) == requests[id].provider_id = current_user.user_id

Linked(provider_id, skill_id) ==
    BagIn(UserSkillRow(provider_id, skill_id), user_skills)

\* A supplied status / time that the update contract does not admit.
BadStatus(id, st) ==
    Truthy(st) /\ ~InTable(requests[id].status, st, ActsAsRequester(id),
                           ActsAsProvider(id))
BadTime(id, ti) ==
    Truthy(ti) /\ ( \/ ~ActsAsRequester(id)
                    \/ ti \notin DOMAIN TimeOf
                    \/ TimeOf[ti] < now )

(***************************************************************************)
(* Properties of update_request (checked under SpecLifecycle).             *)
(***************************************************************************)

\* C1: update_request(status=to) changes the status iff (from, to, actor)
\* is a row of the transition table; every other triple is rejected and
\* the stored status stays as it was.
C1_TransitionTable ==
    \A id \in RequestIdIn, to \in Statuses :
        (LoggedIn /\ id \in DOMAIN requests) =>
            LET r == update_request(id, to, NULL, NULL)
                from == requests[id].status
            IN  IF InTable(from, to, ActsAsRequester(id), ActsAsProvider(id))
                THEN r.outcome = "ok" /\ r.requests[id].status = to
                ELSE /\ r.outcome \in {"InvalidTransition", "Forbidden"}
                     /\ r.requests[id].status = from

\* C2: rejected, completed and cancelled are terminal: no step changes the
\* status of a request that has reached one of them; a request becomes
\* completed only from accepted, accepted only from pending, and a new
\* request starts pending.
C2_TerminalAndOrder ==
    [][ /\ \A id \in DOMAIN requests \cap DOMAIN requests' :
             /\ requests[id].status \in Terminal
                    => requests'[id].status = requests[id].status
             /\ ( /\ requests'[id].status = "completed"
                  /\ requests[id].status # "completed" )
                    => requests[id].status = "accepted"
             /\ ( /\ requests'[id].status = "accepted"
                  /\ requests[id].status # "accepted" )
                    => requests[id].status = "pending"
        /\ \A id \in DOMAIN requests' \ DOMAIN requests :
             requests'[id].status = "pending" ]_vars

\* C2 witness: an update was refused on a request that is completed.
C2_Witness ==
    /\ last = Report("update_request", "InvalidTransition")
    /\ \E id \in DOMAIN requests : requests[id].status = "completed"

\* C3: every stored status is one of the five values, and a requester's
\* cancel of a pending request is persisted as status cancelled (the
\* schema's status constraint admits every value the state machine writes).
C3_CancelPersisted ==
    /\ \A id \in DOMAIN requests : requests[id].status \in Statuses
    /\ \A id \in RequestIdIn :
        ( /\ LoggedIn /\ id \in DOMAIN requests
          /\ requests[id].status = "pending" /\ ActsAsRequester(id) )
        => LET r == update_request(id, "cancelled", NULL, NULL)
           IN  r.outcome = "ok" /\ r.requests[id].status = "cancelled"

\* C4: update_request by a logged-in user who is neither the requester nor
\* the provider of the request fails with Forbidden, whatever fields are
\* supplied, and leaves the request unchanged.
C4_OutsiderForbidden ==
    \A id \in RequestIdIn, st \in StatusIn, no \in NotesIn,
       ti \in TimeStrOpt :
        ( /\ LoggedIn /\ id \in DOMAIN requests
          /\ ~ActsAsRequester(id) /\ ~ActsAsProvider(id) )
        => LET r == update_request(id, st, no, ti)
           IN  r.outcome = "Forbidden" /\ r.requests = requests

\* C4 witness: an outsider's update was refused while the request exists.
C4_Witness ==
    /\ last = Report("update_request", "Forbidden")
    /\ \E id \in DOMAIN requests :
           /\ requests[id].requester_id # current_user.user_id
           /\ requests[id].provider_id # current_user.user_id

\* C5: update_request is all-or-nothing: if any supplied field fails
\* validation the call fails; a failed call leaves the table unchanged; a
\* successful call writes exactly the supplied fields (and updated_at) to
\* the one row, in one update.
C5_AllOrNothing ==
    \A id \in RequestIdIn, st \in StatusIn, no \in NotesIn,
       ti \in TimeStrOpt :
        (LoggedIn /\ id \in DOMAIN requests) =>
            LET r == update_request(id, st, no, ti)
                row == requests[id]
                written ==
                    [row EXCEPT
                        !.updated_at = now,
                        !.status = IF Truthy(st) THEN st ELSE @,
                        !.notes = IF Truthy(no) THEN no ELSE @,
                        !.time = IF Truthy(ti) THEN TimeOf[ti] ELSE @]
            IN  /\ (BadStatus(id, st) \/ BadTime(id, ti)) => r.outcome # "ok"
                /\ r.outcome # "ok" => r.requests = requests
                /\ r.outcome = "ok" =>
                       r.requests = [requests EXCEPT ![id] = written]

\* C5 witness: one successful update wrote a new status and notes together.
C5_Witness ==
    /\ last = Report("update_request", "ok")
    /\ \E id \in DOMAIN requests :
           /\ requests[id].status = "accepted"
           /\ requests[id].notes = "note"
           /\ requests[id].updated_at = now
           /\ requests[id].updated_at > 0

\* C6: only the requester can change the scheduled time: an update with a
\* new time by the provider (who is not also the requester) fails and
\* stores nothing, in every status of the request.
C6_ProviderCannotReschedule ==
    \A id \in RequestIdIn, st \in StatusIn, no \in NotesIn,
       ti \in TimeStrOpt :
        ( /\ LoggedIn /\ id \in DOMAIN requests /\ Truthy(ti)
          /\ ActsAsProvider(id) /\ ~ActsAsRequester(id) )
        => LET r == update_request(id, st, no, ti)
           IN  r.outcome # "ok" /\ r.requests = requests

\* C6 witness: the provider's attempt to reschedule was refused.
C6_Witness ==
    /\ last = Report("update_request", "NotRequester")
    /\ \E id \in DOMAIN requests :
           /\ requests[id].provider_id = current_user.user_id
           /\ requests[id].requester_id # current_user.user_id

\* C7: every time accepted by create_request or by a rescheduling
\* update_request is strictly later than the current time; a time equal to
\* now or earlier, or an unparsable one, is rejected and nothing is stored.
C7_StrictlyFuture ==
    /\ \A provider_id \in UserIdIn, skill_id \in SkillIdIn,
          time_str \in TimeStrIn, duration \in DurationIn,
          credit_cost \in CreditIn, notes \in NotesIn :
           LET r == create_request(provider_id, skill_id, time_str,
                                   duration, credit_cost, notes)
           IN  IF time_str \in DOMAIN TimeOf /\ TimeOf[time_str] > now
               THEN TRUE
               ELSE r.outcome # "ok" /\ r.requests = requests
    /\ \A id \in RequestIdIn, st \in StatusIn, no \in NotesIn,
          ti \in TimeStrOpt :
           (LoggedIn /\ id \in DOMAIN requests /\ Truthy(ti)) =>
               LET r == update_request(id, st, no, ti)
               IN  IF ti \in DOMAIN TimeOf /\ TimeOf[ti] > now
                   THEN TRUE
                   ELSE r.outcome # "ok" /\ r.requests = requests

\* C8: update_request by a participant with no field supplied fails with
\* NoOp and changes nothing (updated_at included); a call supplying some
\* field, all of which pass validation, succeeds.
C8_NoOpOrSuccess ==
    \A id \in RequestIdIn, st \in StatusIn, no \in NotesIn,
       ti \in TimeStrOpt :
        ( /\ LoggedIn /\ id \in DOMAIN requests
          /\ (ActsAsRequester(id) \/ ActsAsProvider(id)) )
        => LET r == update_request(id, st, no, ti)
           IN  IF ~(Truthy(st) \/ Truthy(no) \/ Truthy(ti))
               THEN r.outcome = "NoOp" /\ r.requests = requests
               ELSE (~BadStatus(id, st) /\ ~BadTime(id, ti))
                        => r.outcome = "ok"

(***************************************************************************)
(* Properties of create_request (checked under SpecCreate).                *)
(***************************************************************************)

\* The condition the creation contract reports for a call, first failing
\* check first.
CreateContract(provider_id, skill_id, time_str, duration, credit_cost) ==
    IF ~(provider_id \in DOMAIN users /\ ~users[provider_id].deleted)
        THEN "NotFound"
    ELSE IF ~Linked(provider_id, skill_id) THEN "SkillNotOffered"
    ELSE IF time_str \notin DOMAIN TimeOf THEN "InvalidTime"
    ELSE IF ~(TimeOf[time_str] > now) THEN "PastTime"
    ELSE IF ~(duration >= 15) THEN "InvalidDuration"
    ELSE IF ~(credit_cost >= 1) THEN "InvalidCredit"
    ELSE "ok"

\* r.requests is `requests` plus exactly one row, pending, requested by the
\* current principal from provider_id for skill_id.
InsertsOne(r, provider_id, skill_id) ==
    \E n \in DOMAIN r.requests \ DOMAIN requests :
        /\ DOMAIN r.requests = DOMAIN requests \cup {n}
        /\ \A i \in DOMAIN requests : r.requests[i] = requests[i]
        /\ r.requests[n].status = "pending"
        /\ r.requests[n].requester_id = current_user.user_id
        /\ r.requests[n].provider_id = provider_id
        /\ r.requests[n].skill_id = skill_id

\* C9: create_request inserts exactly one new pending request of the
\* current principal iff the provider exists and is not soft-deleted, is
\* linked to the skill, the time is valid and in the future, duration >= 15
\* and credit_cost >= 1; otherwise nothing is inserted and the first
\* failing check, in the contract's order, is the one reported.
C9_CreateIff ==
    \A provider_id \in UserIdIn, skill_id \in SkillIdIn,
       time_str \in TimeStrIn, duration \in DurationIn,
       credit_cost \in CreditIn, notes \in NotesIn :
        LoggedIn =>
            LET r == create_request(provider_id, skill_id, time_str,
                                    duration, credit_cost, notes)
                expected == CreateContract(provider_id, skill_id, time_str,
                                           duration, credit_cost)
            IN  /\ r.outcome = expected
                /\ IF expected = "ok"
                   THEN InsertsOne(r, provider_id, skill_id)
                   ELSE r.requests = requests

ReviewsOf(table, id) ==
    {i \in DOMAIN table : table[i].service_request_id = id}
ReviewedBy(id, user_id) ==
    \E i \in ReviewsOf(reviews, id) : reviews[i].reviewer_id = user_id

\* C11: delete_request removes a request iff the caller is its requester,
\* whatever the status of the request: the requester's call removes exactly
\* that row; a call by the provider or by any other user fails with
\* Forbidden and stores nothing; and a delete_request command that fails
\* leaves requests and reviews as they were.
C11_DeleteIffRequester ==
    /\ [](\A id \in RequestIdIn :
            (LoggedIn /\ id \in DOMAIN requests) =>
                LET r == delete_request(id)
                IN  IF ActsAsRequester(id)
                    THEN /\ r.outcome = "ok"
                         /\ DOMAIN r.requests = DOMAIN requests \ {id}
                         /\ \A j \in DOMAIN r.requests :
                                r.requests[j] = requests[j]
                    ELSE r.outcome = "Forbidden" /\ r.requests = requests)
    /\ [][(last'.op = "delete_request" /\ last'.outcome # "ok")
             => (requests' = requests /\ reviews' = reviews)]_vars

\* C11 witness: the provider's delete of a completed and reviewed request
\* was refused.
C11_Witness ==
    /\ last = Report("delete_request", "Forbidden")
    /\ \E id \in DOMAIN requests :
           /\ requests[id].status = "completed"
           /\ requests[id].provider_id = current_user.user_id
           /\ requests[id].requester_id # current_user.user_id
           /\ ReviewsOf(reviews, id) # {}

C13_OnlyCompletedByParticipant ==
    \A id \in RequestIdIn, rating \in RatingIn, comments \in CommentsIn :
        LoggedIn =>
            LET r == add_review(id, rating, comments)
                participant == ActsAsRequester(id) \/ ActsAsProvider(id)
            IN  /\ r.reviews # reviews => r.outcome = "ok"
                /\ r.outcome = "ok" =>
                       /\ id \in DOMAIN requests
                       /\ participant
                       /\ requests[id].status = "completed"
                       /\ ReviewsOf(r.reviews, id) # ReviewsOf(reviews, id)
                /\ (id \in DOMAIN requests /\ ~participant) =>
                       r.outcome = "Forbidden" /\ r.reviews = reviews
                /\ ( /\ id \in DOMAIN requests /\ participant
                     /\ requests[id].status \in Statuses \ {"completed"} ) =>
                       r.outcome = "NotCompleted" /\ r.reviews = reviews

\* C13 witness: a participant's review of an accepted request was refused.
C13_Witness ==
    /\ last = Report("add_review", "NotCompleted")
    /\ \E id \in DOMAIN requests :
           /\ requests[id].status = "accepted"
           /\ requests[id].provider_id = current_user.user_id

\* C14: at most one review is stored per (request, reviewer) pair, and
\* add_review by a user who already has a review stored for the request
\* inserts nothing: it fails, with DuplicateReview when the request is
\* stored, completed and the caller is one of its parties.
C14_OneReviewPerReviewer ==
    /\ \A i, j \in DOMAIN reviews :
           ( /\ reviews[i].service_request_id = reviews[j].service_request_id
             /\ reviews[i].reviewer_id = reviews[j].reviewer_id ) => i = j
    /\ \A id \in RequestIdIn, rating \in RatingIn, comments \in CommentsIn :
           (LoggedIn /\ ReviewedBy(id, current_user.user_id)) =>
               LET r == add_review(id, rating, comments)
               IN  /\ r.outcome # "ok" /\ r.reviews = reviews
                   /\ ( /\ id \in DOMAIN requests
                        /\ requests[id].status = "completed"
                        /\ ActsAsRequester(id) \/ ActsAsProvider(id) )
                          => r.outcome = "DuplicateReview"

\* C14 witness: a second review by the same reviewer was refused and the
\* first one is still the only one of that reviewer.
C14_Witness ==
    /\ last = Report("add_review", "DuplicateReview")
    /\ \E id \in DOMAIN requests :
           /\ requests[id].status = "completed"
           /\ Cardinality({i \in ReviewsOf(reviews, id) :
                  reviews[i].reviewer_id = current_user.user_id}) = 1

C17_Unauthenticated ==
    session_file = <<>> =>
        /\ \A skill_name \in SkillNameIn :
               LET r == add_skill(skill_name)
               IN  /\ r.outcome = "Unauthenticated"
                   /\ r.skills = skills /\ r.user_skills = user_skills
        /\ \A skill_id \in SkillIdIn :
               LET r == remove_skill(skill_id)
               IN  r.outcome = "Unauthenticated" /\ r.user_skills = user_skills
        /\ \A provider_id \in UserIdIn, skill_id \in SkillIdIn,
              time_str \in TimeStrIn, duration \in DurationIn,
              credit_cost \in CreditIn, notes \in NotesIn :
               LET r == create_request(provider_id, skill_id, time_str,
                                       duration, credit_cost, notes)
               IN  r.outcome = "Unauthenticated" /\ r.requests = requests
        /\ \A id \in RequestIdIn, st \in StatusIn, no \in NotesIn,
              ti \in TimeStrOpt :
               LET r == update_request(id, st, no, ti)
               IN  r.outcome = "Unauthenticated" /\ r.requests = requests
        /\ \A id \in RequestIdIn :
               LET r == delete_request(id)
               IN  r.outcome = "Unauthenticated" /\ r.requests = requests
        /\ \A id \in RequestIdIn, rating \in RatingIn,
              comments \in CommentsIn :
               LET r == add_review(id, rating, comments)
               IN  r.outcome = "Unauthenticated" /\ r.reviews = reviews
        /\ \A username_in \in UpdateNameIn, email_in \in UpdateEmailIn :
               LET r == update_user(username_in, email_in)
               IN  r.outcome = "Unauthenticated" /\ r.users = users
        /\ \A confirm \in ConfirmIn :
               LET r == delete_user(confirm)
               IN  /\ r.outcome = "Unauthenticated"
                   /\ r.users = users /\ r.session_file = session_file

\* C17 witness: with skills, links and a request stored and nobody logged
\* in, a skill command was refused.
C17_Witness ==
    /\ last = Report("add_skill", "Unauthenticated")
    /\ session_file = <<>>
    /\ requests # <<>>
    /\ user_skills # EmptyBag

(***************************************************************************)
(* Properties of sessions and accounts (checked under SpecAuth).           *)
(***************************************************************************)

\* C18: after the logout command has run, no session file remains and the
\* next invocation resolves no principal.
C18_LogoutClears ==
    last.op = "logout" => (session_file = <<>> /\ ~LoggedIn)

\* The user row a login with these credentials is entitled to.
Entitled(username, password) ==
    {i \in DOMAIN users :
        /\ users[i].username = username
        /\ ~users[i].deleted
        /\ users[i].password_hash = <<"bcrypt", password>>}

\* C19: login succeeds iff the username belongs to a user that is not
\* soft-deleted and the password matches the stored credential; on success
\* the session file holds that user's id, username and email, which is what
\* the next invocation resolves; on failure the session file is unchanged.
C19_LoginIff ==
    \A username \in UsernameIn \cup UpdateNameIn, password \in PasswordIn :
        LET r == login(username, password)
        IN  IF Entitled(username, password) # {}
            THEN /\ r.outcome = "ok"
                 /\ \E i \in Entitled(username, password) :
                        r.session_file =
                            <<[user_id |-> i, username |-> username,
                               email |-> users[i].email]>>
            ELSE r.outcome # "ok" /\ r.session_file = session_file

\* C19 witness: a login with a wrong password was refused while an earlier
\* session is on file, and that session is still there.
C19_Witness ==
    /\ last = Report("login", "InvalidCredentials")
    /\ session_file # <<>>
    /\ \E i \in DOMAIN users : users[i].deleted

\* C20: usernames and emails are unique across all user rows, soft-deleted
\* ones included; register with a username or email some row holds, and
\* update_user to a username or email another row holds, fail and leave
\* the table unchanged; register with a fresh username and email succeeds
\* and adds one row.
C20_UniqueNames ==
    /\ \A i, j \in DOMAIN users :
           ( \/ users[i].username = users[j].username
             \/ users[i].email = users[j].email ) => i = j
    /\ \A username \in (UsernameIn \cup UpdateNameIn) \ {""},
          email \in (RegisterEmailIn \cup UpdateEmailIn) \ {""} :
           LET r == register(username, email, "secret-pw")
               taken == \E i \in DOMAIN users :
                            \/ users[i].username = username
                            \/ users[i].email = email
           IN  IF taken
               THEN r.outcome # "ok" /\ r.users = users
               ELSE /\ r.outcome = "ok"
                    /\ Cardinality(DOMAIN r.users)
                           = Cardinality(DOMAIN users) + 1
                    /\ \A i \in DOMAIN users : r.users[i] = users[i]
                    /\ \E n \in DOMAIN r.users \ DOMAIN users :
                           /\ r.users[n].username = username
                           /\ r.users[n].email = email
    /\ \A username_in \in UpdateNameIn, email_in \in UpdateEmailIn :
           LoggedIn =>
               LET r == update_user(username_in, email_in)
                   me == session_file[1].user_id
                   taken == \E i \in DOMAIN users \ {me} :
                                \/ username_in # ""
                                   /\ users[i].username = username_in
                                \/ email_in # ""
                                   /\ users[i].email = email_in
               IN  taken => (r.outcome # "ok" /\ r.users = users)

\* C20 witness: a rename to a name held by another row was refused, with a
\* soft-deleted row in the table.
C20_Witness ==
    /\ last = Report("update_user", "AlreadyInUse")
    /\ \E i \in DOMAIN users : users[i].deleted

(***************************************************************************)
(* Properties of list_requests and view_request (checked under SpecRead).  *)
(***************************************************************************)

\* C21: a principal who is neither requester nor provider of a request is
\* shown that request neither by view_request nor by list_requests, with
\* or without a user-id filter.
C21_ReadOnlyParticipants ==
    LoggedIn =>
        /\ \A request_id \in RequestIdIn :
               \A id \in view_request(request_id).shown :
                   ActsAsRequester(id) \/ ActsAsProvider(id)
        /\ \A user_id \in UserFilterIn, status \in StatusIn :
               \A id \in list_requests(user_id, status).shown :
                   ActsAsRequester(id) \/ ActsAsProvider(id)

(***************************************************************************)
(* Properties of account deletion (checked under SpecAccount).             *)
(***************************************************************************)

C28_SessionMatchesRow ==
    session_file # <<>> =>
        LET rec == session_file[1]
        IN  /\ rec.user_id \in DOMAIN users
            /\ rec.username = users[rec.user_id].username
            /\ rec.email = users[rec.user_id].email

\* C29: whenever a principal resolves, it refers to a stored user row that
\* is not soft-deleted.
C29_SessionOfLiveUser ==
    session_file # <<>> =>
        /\ session_file[1].user_id \in DOMAIN users
        /\ ~users[session_file[1].user_id].deleted

\* C29 witness: an account was deleted and no session is left, while the
\* deleted row is still stored.
C29_Witness ==
    /\ last = Report("delete_user", "ok")
    /\ session_file = <<>>
    /\ \E i \in DOMAIN users : users[i].deleted

(***************************************************************************)
(* Properties of add_skill and remove_skill (checked under SpecSkill).     *)
(***************************************************************************)
LinksOf(bag, user_id) == {l \in BagToSet(bag) : l.user_id = user_id}

\* C23: there is at most one link per (user, skill) pair and at most one
\* skill row per name; add_skill for a skill the caller already has fails
\* and adds nothing; remove_skill fails and removes nothing when the caller
\* has no such link, and otherwise removes the caller's link and no other.
C23_UniqueLinks ==
    /\ \A l \in BagToSet(user_skills) : CopiesIn(l, user_skills) = 1
    /\ \A i, j \in DOMAIN skills : skills[i].name = skills[j].name => i = j
    /\ LoggedIn =>
        LET me == session_file[1].user_id
        IN  /\ \A skill_name \in SkillNamesIn :
                   ( \E i \in DOMAIN skills :
                         /\ skills[i].name = skill_name
                         /\ [user_id |-> me, skill_id |-> i]
                                \in BagToSet(user_skills) )
                   => LET r == add_skill(skill_name)
                      IN  /\ r.outcome # "ok"
                          /\ r.skills = skills
                          /\ r.user_skills = user_skills
            /\ \A skill_id \in SkillIdIn :
                   LET r == remove_skill(skill_id)
                       mine == [user_id |-> me, skill_id |-> skill_id]
                   IN  IF mine \in BagToSet(user_skills)
                       THEN /\ r.outcome = "ok"
                            /\ BagToSet(r.user_skills)
                                   = BagToSet(user_skills) \ {mine}
                            /\ \A l \in BagToSet(r.user_skills) :
                                   CopiesIn(l, r.user_skills)
                                       = CopiesIn(l, user_skills)
                       ELSE /\ r.outcome # "ok"
                            /\ r.user_skills = user_skills

\* C23 witness: a second add of the same skill was refused while another
\* user holds a link to the same skill row.
C23_Witness ==
    /\ last = Report("add_skill", "AlreadyHasSkill")
    /\ \E l \in LinksOf(user_skills, session_file[1].user_id) :
           \E m \in BagToSet(user_skills) :
               m.skill_id = l.skill_id /\ m.user_id # l.user_id

\* C24: when a storage write fails in the middle of a domain operation, the
\* operation reports failure and nothing of it is applied: the stored
\* tables are those from before the operation, also for add_skill, which
\* issues two writes.
C24_FailedWriteAppliesNothing ==
    \A skill_name \in SkillNamesIn, failed_write \in FailedWriteIn :
        LET r == add_skill_failing(skill_name, failed_write)
        IN  r.outcome = "StorageError" =>
                (r.skills = skills /\ r.user_skills = user_skills)

C30_FixedTerms ==
    /\ \A id \in DOMAIN requests :
           /\ requests[id].duration >= MinDuration
           /\ requests[id].credit_cost >= MinCredit
    /\ \A id \in RequestIdIn, st \in StatusIn, no \in NotesIn,
          ti \in TimeStrOpt :
           (LoggedIn /\ id \in DOMAIN requests) =>
               LET r == update_request(id, st, no, ti)
                   old == requests[id]
                   new == r.requests[id]
               IN  /\ DOMAIN r.requests = DOMAIN requests
                   /\ new.requester_id = old.requester_id
                   /\ new.provider_id = old.provider_id
                   /\ new.skill_id = old.skill_id
                   /\ new.duration = old.duration
                   /\ new.credit_cost = old.credit_cost

\* C30 witness: a request that was accepted and then completed, with new
\* notes, still carries the duration and credit cost it was created with.
C30_Witness ==
    /\ last = Report("update_request", "ok")
    /\ \E id \in DOMAIN requests :
           /\ requests[id].status = "completed"
           /\ requests[id].notes = "note"
           /\ requests[id].duration = MinDuration
           /\ requests[id].credit_cost = MinCredit
           /\ requests[id].requester_id # requests[id].provider_id

(***************************************************************************)
(* Interleaved commands (checked under SpecRace).                          *)
(***************************************************************************)
InFlight(op) == {k \in DOMAIN inflight : inflight[k].op = op}

====
